---- MODULE Spec2Model ----
(***************************************************************************)
(* The i18n module of the landing page (src/unnamed/part_000, lines        *)
(* 118-331): language resolution, the translation loader with its cache    *)
(* and fallback, the translation applier, the picker and the language      *)
(* switch.  JavaScript strings are TLA+ strings; split/startsWith/includes *)
(* are computed character by character.  Every async call (initI18n,       *)
(* switchLanguage) is a task whose only suspension point is its fetch.     *)
(***************************************************************************)
EXTENDS Integers, Sequences, FiniteSets, TLC

VARIABLES
    storage,            \* localStorage.getItem('lang'): a string, or NULL
    navigator,          \* navigator.languages / navigator.language
    markup,             \* which containers the page's HTML holds
    resolved,           \* the last value returned by resolveLanguage()
    translationCache,   \* translationCache[lang]: a bundle, or UNDEFINED
    dom,                \* text / aria-label of marked elements, title, description
    langOptions,        \* the .lang-option buttons that are in the document
    htmlLang,           \* document.documentElement's lang attribute
    tasks,              \* the async calls made so far, in the order issued
    fetches,            \* fetches[lang]: fetch('i18n/<lang>.json') calls issued
    loads,              \* loads[lang]: loadTranslation(lang) calls made
    applied,            \* the bundles applyTranslations was called with directly
    typing,             \* the hero subtitle, _typingTimer and the pending timers
    scroll,             \* window.scrollY, the two throttled handlers, what they set
    menu,               \* the mobile menu: classes, attributes, listeners, focus
    theme               \* the theme: data-theme, the stored theme, the button

\* the state of the i18n module and of the page it writes
i18nVars == <<storage, navigator, markup, resolved, translationCache, dom,
              langOptions, htmlLang, tasks, fetches, loads>>

\* the state the calls made outside initI18n and switchLanguage add
pageVars == <<applied, typing, scroll, menu, theme>>

vars == <<i18nVars, pageVars>>

-----------------------------------------------------------------------------
(* Bounds *)

MaxLangs == 2          \* longest navigator.languages list drawn
MaxSwitches == 2       \* switchLanguage calls per page session
MaxApplies == 3        \* direct applyTranslations calls in a row
MaxTypeCalls == 3      \* typeHeroSubtitle calls per page session
MaxScrolls == 3        \* scroll events per page session
MaxMenuEvents == 5     \* clicks and key presses per page session
MaxThemeClicks == 3    \* clicks on the theme toggle per page session

-----------------------------------------------------------------------------
(* Constants of the module *)

NULL == "<null>"                       \* JavaScript null (getItem of an absent key)
NONE == "<none>"                       \* resolveLanguage() has not returned yet

I18N_STORAGE_KEY == "lang"
DEFAULT_LANG == "en"
SUPPORTED_LANGS == <<"en", "pt-BR", "de">>

Supported == {SUPPORTED_LANGS[i] : i \in DOMAIN SUPPORTED_LANGS}

\* the codes switchLanguage is called with: the picker's, and one it rejects
Codes == Supported \cup {"xx"}

-----------------------------------------------------------------------------
(* String and array primitives, computed as the JavaScript built-ins do *)

CharAt(s, i) == SubSeq(s, i, i)

\* s.indexOf(sep) + 1 for a one-character sep: 0 when sep does not occur
IndexOf(s, sep) ==
    LET hits == {i \in 1..Len(s) : CharAt(s, i) = sep}
    IN  IF hits = {} THEN 0 ELSE CHOOSE i \in hits : \A j \in hits : i <= j

\* s.split(sep): the pieces of s between the occurrences of sep
RECURSIVE Split(_, _)
Split(s, sep) ==
    LET i == IndexOf(s, sep)
    IN  IF i = 0 THEN <<s>>
        ELSE <<SubSeq(s, 1, i - 1)>> \o Split(SubSeq(s, i + 1, Len(s)), sep)

\* s.startsWith(p)
StartsWith(s, p) == Len(p) <= Len(s) /\ SubSeq(s, 1, Len(p)) = p

\* arr.includes(x)
Includes(arr, x) == \E i \in DOMAIN arr : arr[i] = x

\* a JavaScript string used as a condition: '' and null are falsy
TruthyStr(s) == s # NULL /\ s # ""

-----------------------------------------------------------------------------
(* Language resolution *)

\* SUPPORTED_LANGS.find(supported => supported === prefix ||
\*                                   supported.startsWith(prefix + '-'))
FindByPrefix(prefix) ==
    LET hits == {i \in DOMAIN SUPPORTED_LANGS :
                    \/ SUPPORTED_LANGS[i] = prefix
                    \/ StartsWith(SUPPORTED_LANGS[i], prefix \o "-")}
    IN  IF hits = {} THEN NULL
        ELSE SUPPORTED_LANGS[CHOOSE i \in hits : \A j \in hits : i <= j]

\* navigator.languages ?? [navigator.language]
BrowserLangs(nav) ==
    IF nav.hasLanguages THEN nav.languages ELSE <<nav.language>>

\* the body of the for loop, from the k-th locale on
RECURSIVE DetectFrom(_, _)
DetectFrom(langs, k) ==
    IF k > Len(langs) THEN NULL
    ELSE LET browserLang == langs[k]
             prefix == Split(browserLang, "-")[1]
             match == FindByPrefix(prefix)
         IN  IF Includes(SUPPORTED_LANGS, browserLang) THEN browserLang
             ELSE IF TruthyStr(match) THEN match
             ELSE DetectFrom(langs, k + 1)

\* A detector that looks for an exact match in the whole list before it
\* tries any prefix.
RECURSIVE PrefixFrom(_, _)
PrefixFrom(langs, k) ==
    IF k > Len(langs) THEN NULL
    ELSE LET match == FindByPrefix(Split(langs[k], "-")[1])
         IN  IF TruthyStr(match) THEN match ELSE PrefixFrom(langs, k + 1)

detectBrowserLangExactFirst(nav) ==
    LET langs == BrowserLangs(nav)
        exact == {k \in DOMAIN langs : Includes(SUPPORTED_LANGS, langs[k])}
    IN  IF exact # {} THEN langs[CHOOSE k \in exact : \A j \in exact : k <= j]
        ELSE PrefixFrom(langs, 1)

detectBrowserLang(nav) == DetectFrom(BrowserLangs(nav), 1)

\* A resolver that trusts whatever string is stored.
resolveLanguageUnchecked(stored, nav) ==
    IF TruthyStr(stored) THEN stored
    ELSE LET detected == detectBrowserLang(nav)
         IN  IF TruthyStr(detected) THEN detected ELSE DEFAULT_LANG

\* A resolver that asks the browser before it looks at the stored value.
resolveLanguageBrowserFirst(stored, nav) ==
    LET detected == detectBrowserLang(nav)
    IN  IF TruthyStr(detected) THEN detected
        ELSE IF TruthyStr(stored) /\ Includes(SUPPORTED_LANGS, stored) THEN stored
        ELSE DEFAULT_LANG

\* A resolver that returns the detector's answer even when there is none.
resolveLanguageNoDefault(stored, nav) ==
    IF TruthyStr(stored) /\ Includes(SUPPORTED_LANGS, stored) THEN stored
    ELSE detectBrowserLang(nav)

resolveLanguage(stored, nav) ==
    IF TruthyStr(stored) /\ Includes(SUPPORTED_LANGS, stored) THEN stored
    ELSE LET detected == detectBrowserLang(nav)
         IN  IF TruthyStr(detected) THEN detected ELSE DEFAULT_LANG

-----------------------------------------------------------------------------
(* JSON values, as response.json() yields them *)

UNDEFINED == [t |-> "undefined"]
Str(s) == [t |-> "string", s |-> s]
Num(n) == [t |-> "number", n |-> n]
Obj(f) == [t |-> "object", f |-> f]

EmptyBundle == Obj([k \in {} |-> UNDEFINED])        \* the literal {}

Digits == <<"0", "1", "2", "3", "4", "5", "6", "7", "8", "9">>

\* a value used as a condition
Truthy(v) ==
    CASE v.t = "undefined" -> FALSE
      [] v.t = "string" -> v.s # ""
      [] v.t = "number" -> v.n # 0
      [] OTHER -> TRUE

\* value != null
NotNullish(v) == v.t # "undefined"

\* the string a value becomes when assigned to textContent or an attribute
JsString(v) ==
    CASE v.t = "string" -> v.s
      [] v.t = "number" -> ToString(v.n)
      [] v.t = "object" -> "[object Object]"
      [] OTHER -> "undefined"

\* current?.[key]
Get(current, key) ==
    CASE current.t = "undefined" -> UNDEFINED
      [] current.t = "object" ->
            IF key \in DOMAIN current.f THEN current.f[key] ELSE UNDEFINED
      [] current.t = "string" ->
            IF key = "length" THEN Num(Len(current.s))
            ELSE IF \E d \in DOMAIN Digits : Digits[d] = key /\ d <= Len(current.s)
                 THEN Str(CharAt(current.s, CHOOSE d \in DOMAIN Digits : Digits[d] = key))
                 ELSE UNDEFINED
      [] OTHER -> UNDEFINED

RECURSIVE Reduce(_, _, _)
Reduce(keys, k, current) ==
    IF k > Len(keys) THEN current ELSE Reduce(keys, k + 1, Get(current, keys[k]))

\* A lookup that takes the dotted path for a single key.
getNestedValueShallow(obj, keyPath) == Get(obj, keyPath)

getNestedValue(obj, keyPath) == Reduce(Split(keyPath, "."), 1, obj)

-----------------------------------------------------------------------------
(* The page: the documents the site serves and the marked elements *)

\* i18n/<lang>.json
Document(lang) ==
    CASE lang = "en" ->
            Obj([meta |-> Obj([title |-> Str("Home"), description |-> Str("About me")]),
                 hero |-> Obj([subtitle |-> Str("Hello"), cta |-> Str("Contact")]),
                 nav  |-> Obj([toggle |-> Str("Menu")])])
      [] lang = "pt-BR" ->
            Obj([meta |-> Obj([title |-> Str("Inicio")]),
                 hero |-> Obj([subtitle |-> Str("Ola")])])
      [] lang = "de" ->
            Obj([meta |-> Obj([title |-> Str("Start"), description |-> Str("Ueber mich")]),
                 hero |-> Obj([subtitle |-> Str("Hallo"), cta |-> Str("Kontakt")]),
                 nav  |-> Obj([toggle |-> Str("Menue")])])
      [] OTHER -> UNDEFINED

\* the elements carrying data-i18n, with the attribute's value
DataI18n ==
    [heroSubtitle |-> "hero.subtitle", heroCta |-> "hero.cta",
     heroSubtitleLength |-> "hero.subtitle.length"]

\* the elements carrying data-i18n-aria-label, with the attribute's value
DataI18nAriaLabel == [navToggle |-> "nav.toggle"]

\* the page as its HTML is written
InitialDom ==
    [text |-> [heroSubtitle |-> "Hi", heroCta |-> "Write me",
               heroSubtitleLength |-> "n/a"],
     aria |-> [navToggle |-> "Toggle"],
     title |-> "Landing",
     description |-> "A page"]

Pickers == {"desktop", "mobile"}

-----------------------------------------------------------------------------
(* Applying a bundle, and the picker *)

\* An applier that appends the translated string to the element's text.
applyTranslationsAppend(translations, d) ==
    [d EXCEPT !.text = [el \in DOMAIN DataI18n |->
                          LET value == getNestedValue(translations, DataI18n[el])
                          IN  IF NotNullish(value) THEN d.text[el] \o JsString(value)
                              ELSE d.text[el]]]

applyTranslations(translations, d) ==
    LET metaTitle == getNestedValue(translations, "meta.title")
        metaDesc == getNestedValue(translations, "meta.description")
    IN  [text |-> [el \in DOMAIN DataI18n |->
                     LET value == getNestedValue(translations, DataI18n[el])
                     IN  IF NotNullish(value) THEN JsString(value) ELSE d.text[el]],
         aria |-> [el \in DOMAIN DataI18nAriaLabel |->
                     LET value == getNestedValue(translations, DataI18nAriaLabel[el])
                     IN  IF NotNullish(value) THEN JsString(value) ELSE d.aria[el]],
         title |-> IF Truthy(metaTitle) THEN JsString(metaTitle) ELSE d.title,
         description |-> IF Truthy(metaDesc) THEN JsString(metaDesc) ELSE d.description]

\* one .lang-option button: its active class and its aria-current attribute
Button(isActive) ==
    [active |-> isActive, ariaCurrent |-> IF isActive THEN "true" ELSE "false"]

\* the buttons of the document after updatePicker(activeLang)
updatePicker(activeLang, opts) ==
    [p \in DOMAIN opts |-> [lang \in Supported |-> Button(lang = activeLang)]]

\* A lang attribute that drops the region.
HtmlLangOfShort(activeLang) == IF activeLang = "pt-BR" THEN "pt" ELSE activeLang

\* the lang attribute updatePicker(activeLang) sets
HtmlLangOf(activeLang) == IF activeLang = "pt-BR" THEN "pt-BR" ELSE activeLang

\* the buttons createLanguagePicker puts in the document: the desktop picker
\* when .nav-actions holds a .theme-toggle, its clone when .nav-mobile exists
createLanguagePicker(currentLang, m) ==
    LET inDocument == {p \in Pickers : \/ p = "desktop" /\ m.navActions
                                       \/ p = "mobile" /\ m.navMobile}
    IN  [p \in inDocument |-> [lang \in Supported |-> Button(lang = currentLang)]]

-----------------------------------------------------------------------------
(* Async calls.  A task is one call of initI18n or switchLanguage:          *)
(*   fn, lang    the function and the language it resolved or was given     *)
(*   pc          "fetch": suspended in loadTranslation on its fetch;        *)
(*               "done": ran to its end; "ignored": returned at the guard   *)
(*   fetched     the languages this call has fetched, in order              *)
(*   failures    how many of those fetches failed                           *)
(*   overlapped  another initI18n/switchLanguage ran while it was suspended *)
(*   result      the bundle its loadTranslation returned                    *)
(* A continuation after an await whose promise is already settled runs in   *)
(* the same turn of the event loop, before any other event is delivered, so *)
(* it belongs to the step that settled it.                                  *)

NewTask(fn, lang) ==
    [fn |-> fn, lang |-> lang, pc |-> "start", fetched |-> <<>>, failures |-> 0,
     overlapped |-> \E j \in DOMAIN tasks : tasks[j].pc = "fetch",
     result |-> UNDEFINED]

\* the calls made so far, the suspended ones now overlapped by a new call
Overlapping ==
    [j \in DOMAIN tasks |->
        IF tasks[j].pc = "fetch" THEN [tasks[j] EXCEPT !.overlapped = TRUE]
        ELSE tasks[j]]

Put(ts, i, tk) == IF i > Len(ts) THEN Append(ts, tk) ELSE [ts EXCEPT ![i] = tk]

Last(seq) == seq[Len(seq)]

\* A continuation that applies its bundle only when its language is still
\* the stored preference.
ResumeIfCurrent(i, tk, base, translations, opts) ==
    /\ tasks' = Put(base, i, [tk EXCEPT !.pc = "done", !.result = translations])
    /\ IF storage' = tk.lang
       THEN /\ dom' = applyTranslations(translations, dom)
            /\ langOptions' = updatePicker(tk.lang, opts)
            /\ htmlLang' = HtmlLangOf(tk.lang)
       ELSE /\ dom' = dom
            /\ langOptions' = opts
            /\ htmlLang' = htmlLang

\* the caller after `await loadTranslation(lang)`:
\* applyTranslations(translations); updatePicker(lang)
Resume(i, tk, base, translations, opts) ==
    /\ tasks' = Put(base, i, [tk EXCEPT !.pc = "done", !.result = translations])
    /\ dom' = applyTranslations(translations, dom)
    /\ langOptions' = updatePicker(tk.lang, opts)
    /\ htmlLang' = HtmlLangOf(tk.lang)

\* A loader that never consults its cache.
CacheHitNever(cache, lang) == FALSE

\* if (translationCache[lang])
CacheHit(cache, lang) == Truthy(cache[lang])

\* loadTranslation(lang) called by task i, up to its return or its fetch
CallLoad(i, tk, base, lang, opts) ==
    /\ loads' = [loads EXCEPT ![lang] = @ + 1]
    /\ IF CacheHit(translationCache, lang)
       THEN /\ fetches' = fetches
            /\ Resume(i, tk, base, translationCache[lang], opts)
       ELSE /\ fetches' = [fetches EXCEPT ![lang] = @ + 1]
            /\ tasks' = Put(base, i, [tk EXCEPT !.pc = "fetch",
                                                 !.fetched = Append(@, lang)])
            /\ dom' = dom
            /\ langOptions' = opts
            /\ htmlLang' = htmlLang

\* A loader that caches under the language its caller asked for.
CacheKeyRequested(tk) == tk.lang

\* translationCache[lang] = data: lang is the language this call of
\* loadTranslation fetched
CacheKey(tk) == Last(tk.fetched)

\* A catch block that falls back whatever language failed.
FallsBackAlways(lang) == TRUE

\* if (lang !== DEFAULT_LANG) in the catch block
FallsBack(lang) == lang # DEFAULT_LANG

\* A switch that accepts any code.
SwitchGuardNone(lang) == TRUE

\* SUPPORTED_LANGS.includes(lang), the guard of switchLanguage
SwitchGuard(lang) == Includes(SUPPORTED_LANGS, lang)

\* An initialisation that persists the language it resolved.
InitStoragePersist(lang) == lang

\* what initI18n leaves in localStorage: it never calls setItem
InitStorage(lang) == storage

-----------------------------------------------------------------------------
(* Actions *)

\* the script's top-level call initI18n(), up to its await
InitI18n ==
    /\ tasks = <<>>
    /\ LET currentLang == resolveLanguage(storage, navigator)
           lang == resolveLanguage(storage, navigator)
       IN  /\ resolved' = lang
           /\ storage' = InitStorage(lang)
           /\ CallLoad(1, NewTask("initI18n", lang), Overlapping, lang,
                       createLanguagePicker(currentLang, markup))
    /\ UNCHANGED <<navigator, markup, translationCache>>
    /\ UNCHANGED pageVars

\* switchLanguage(lang): a click on a picker button, or any other call
SwitchLanguage(lang) ==
    /\ tasks # <<>>
    /\ Len(tasks) <= MaxSwitches
    /\ IF ~SwitchGuard(lang)
       THEN /\ tasks' = Append(tasks, [NewTask("switchLanguage", lang)
                                           EXCEPT !.pc = "ignored"])
            /\ UNCHANGED <<storage, dom, langOptions, htmlLang, fetches, loads>>
       ELSE /\ storage' = lang
            /\ CallLoad(Len(tasks) + 1, NewTask("switchLanguage", lang),
                        Overlapping, lang, langOptions)
    /\ UNCHANGED <<navigator, markup, resolved, translationCache>>
    /\ UNCHANGED pageVars

\* the fetch of task i is answered and decoded
FetchOk(i) ==
    /\ tasks[i].pc = "fetch"
    /\ Document(Last(tasks[i].fetched)) # UNDEFINED
    /\ UNCHANGED <<storage, navigator, markup, resolved, fetches, loads>>
    /\ UNCHANGED pageVars
    /\ LET lang == Last(tasks[i].fetched)
           data == Document(lang)
       IN  /\ translationCache' =
                 [translationCache EXCEPT ![CacheKey(tasks[i])] = data]
           /\ Resume(i, tasks[i], tasks, data, langOptions)

\* the fetch of task i fails: network error, non-ok status or undecodable body
FetchFail(i) ==
    /\ tasks[i].pc = "fetch"
    /\ UNCHANGED <<storage, navigator, markup, resolved, translationCache>>
    /\ UNCHANGED pageVars
    /\ LET lang == Last(tasks[i].fetched)
           tk == [tasks[i] EXCEPT !.failures = @ + 1]
       IN  IF FallsBack(lang)
           THEN CallLoad(i, tk, tasks, DEFAULT_LANG, langOptions)
           ELSE /\ Resume(i, tk, tasks, EmptyBundle, langOptions)
                /\ UNCHANGED <<fetches, loads>>

\* a call of resolveLanguage() on its own
ResolveCall ==
    /\ resolved = NONE
    /\ resolved' = resolveLanguage(storage, navigator)
    /\ UNCHANGED <<storage, navigator, markup, translationCache, dom,
                   langOptions, htmlLang, tasks, fetches, loads>>
    /\ UNCHANGED pageVars

\* applyTranslations(bundle) called on its own
Apply(bundle) ==
    /\ Len(applied) < MaxApplies
    /\ dom' = applyTranslations(bundle, dom)
    /\ applied' = Append(applied, bundle)
    /\ UNCHANGED <<storage, navigator, markup, resolved, translationCache,
                   langOptions, htmlLang, tasks, fetches, loads>>
    /\ UNCHANGED <<typing, scroll, menu, theme>>

-----------------------------------------------------------------------------
(* The typing effect of the hero subtitle (src/script.js, lines 283-327).   *)
(* typing is the element and the timers of the page:                        *)
(*   el            dom.heroSubtitle() finds the element                     *)
(*   textContent, ariaLabel, typingCursor   the element's text, aria-label  *)
(*                 and whether it carries the typing-cursor class           *)
(*   typingTimer   _typingTimer: a timer id, or NoTimer                     *)
(*   timers        the timeouts set and neither fired nor cleared; each is  *)
(*                 the closure it runs: fn, and the call, text and index    *)
(*                 typeChar closes over                                     *)
(*   nextId        the id the next setTimeout returns                       *)
(*   typed         the calls of typeHeroSubtitle so far, in order           *)

\* let _typingTimer = null
NoTimer == 0

\* the page before typeHeroSubtitle is called; present: the page holds the
\* hero subtitle element
TypingIdle(present) ==
    [el |-> present, textContent |-> InitialDom.text.heroSubtitle,
     ariaLabel |-> NULL, typingCursor |-> FALSE, typingTimer |-> NoTimer,
     timers |-> {}, nextId |-> 1, typed |-> <<>>]

\* A clearTimeout that leaves the timer pending.
clearTimeoutNot(timers, id) == timers

\* clearTimeout(id): no effect when no such timer is pending
clearTimeout(timers, id) == {t \in timers : t.id # id}

\* _typingTimer = setTimeout(fn, ...) inside the closure of one call
setTimeout(st, fn, call, text, index) ==
    [st EXCEPT !.timers = @ \cup {[id |-> st.nextId, fn |-> fn, call |-> call,
                                   text |-> text, index |-> index]},
               !.typingTimer = st.nextId,
               !.nextId = @ + 1]

\* typeChar() with the closure's index (0-based, as in the source)
typeChar(st, call, text, index) ==
    IF index < Len(text)
    THEN setTimeout([st EXCEPT !.textContent = @ \o CharAt(text, index + 1)],
                    "typeChar", call, text, index + 1)
    ELSE setTimeout(st, "removeCursor", call, text, index)

\* window.typeHeroSubtitle(text); reduced: prefersReducedMotion() at the call
typeHeroSubtitle(st, text, reduced) ==
    IF ~st.el \/ text = ""
    THEN st
    ELSE LET cancelled ==
                 IF st.typingTimer # NoTimer
                 THEN [st EXCEPT !.timers = clearTimeout(@, st.typingTimer),
                                 !.typingTimer = NoTimer]
                 ELSE st
             labelled == [cancelled EXCEPT !.ariaLabel = text]
         IN  IF reduced
             THEN [labelled EXCEPT !.textContent = text, !.typingCursor = FALSE]
             ELSE typeChar([labelled EXCEPT !.textContent = "",
                                            !.typingCursor = TRUE],
                           Len(st.typed) + 1, text, 0)

TypeHeroSubtitle(text, reduced) ==
    /\ Len(typing.typed) < MaxTypeCalls
    /\ typing' = [typeHeroSubtitle(typing, text, reduced) EXCEPT
                     !.typed = Append(@, [text |-> text, reduced |-> reduced])]
    /\ UNCHANGED <<i18nVars, applied, scroll, menu, theme>>

\* a timeout set by typeChar whose callback is typeChar fires
TypeCharTimer(t) ==
    /\ t \in typing.timers
    /\ t.fn = "typeChar"
    /\ typing' = typeChar([typing EXCEPT !.timers = @ \ {t}],
                          t.call, t.text, t.index)
    /\ UNCHANGED <<i18nVars, applied, scroll, menu, theme>>

\* the 1500 ms timeout fires: the cursor class goes, _typingTimer = null
CursorTimer(t) ==
    /\ t \in typing.timers
    /\ t.fn = "removeCursor"
    /\ typing' = [typing EXCEPT !.timers = @ \ {t},
                                !.typingCursor = FALSE,
                                !.typingTimer = NoTimer]
    /\ UNCHANGED <<i18nVars, applied, scroll, menu, theme>>

-----------------------------------------------------------------------------
(* Scroll handlers (src/script.js: throttle 44-58, updateHeaderClass        *)
(* 123-128, initScrollProgress 333-357).  scroll is                         *)
(*   scrollY       window.scrollY                                           *)
(*   events        the scroll events dispatched so far                      *)
(*   throttles     per throttled function, the closure throttle() made:     *)
(*                 waiting, lastArgs, the frame callbacks and the timeouts   *)
(*                 it has pending, and invoked: the argument lists fn was   *)
(*                 applied to, in order                                     *)
(*   scrolled      the header carries the class 'scrolled'                  *)
(*   ariaValueNow  the progress bar's aria-valuenow                         *)
(* All callbacks requested for a frame run in that frame, in the order they *)
(* were requested, with no event between them.                              *)

SCROLL_THRESHOLD == 50

\* document.documentElement.scrollHeight - window.innerHeight of the page
DocHeight == 200

\* the functions throttle() is applied to, in the order init() makes them
Throttled == <<"updateHeaderClass", "update">>

\* the function throttle(fn) returns, called with args
throttled(th, args) ==
    LET seen == [th EXCEPT !.lastArgs = args]
    IN  IF th.waiting
        THEN seen
        ELSE [seen EXCEPT !.waiting = TRUE, !.frames = @ + 1]

\* the callback given to requestAnimationFrame
FrameCallback(th) ==
    [th EXCEPT !.frames = @ - 1,
               !.invoked = Append(@, th.lastArgs),
               !.timers = @ + 1]

\* the callback given to setTimeout(..., limit)
TimeoutCallback(th) == [th EXCEPT !.timers = @ - 1, !.waiting = FALSE]

\* Math.round(Math.min(100, Math.max(0, progress))) of update()
Progress(scrollTop) ==
    LET clamp(x) == IF x < 0 THEN 0 ELSE IF x > 100 * DocHeight
                                         THEN 100 * DocHeight ELSE x
    IN  IF DocHeight > 0
        THEN (2 * clamp(scrollTop * 100) + DocHeight) \div (2 * DocHeight)
        ELSE 0

\* the body of the throttled function name, run at the present scroll position
RunFn(sc, name) ==
    IF name = "updateHeaderClass"
    THEN [sc EXCEPT !.scrolled = sc.scrollY > SCROLL_THRESHOLD]
    ELSE [sc EXCEPT !.ariaValueNow = Progress(sc.scrollY)]

\* the frame callbacks of Throttled[k..], those that are pending, run in order
RECURSIVE RunFrames(_, _)
RunFrames(sc, k) ==
    IF k > Len(Throttled)
    THEN sc
    ELSE LET name == Throttled[k]
         IN  IF sc.throttles[name].frames > 0
             THEN RunFrames(RunFn([sc EXCEPT !.throttles[name] = FrameCallback(@)],
                                  name), k + 1)
             ELSE RunFrames(sc, k + 1)

\* the page after init() at scroll position y: a fresh progress bar, and
\* updateHeaderClass() and update() called once, without arguments
ScrollIdle(y) ==
    [scrollY |-> y, events |-> 0, scrolled |-> FALSE, ariaValueNow |-> NULL,
     throttles |-> [name \in {Throttled[k] : k \in DOMAIN Throttled} |->
                      throttled([waiting |-> FALSE, lastArgs |-> <<>>, frames |-> 0,
                                 timers |-> 0, invoked |-> <<>>], <<>>)]]

\* the user scrolls to y: a scroll event is dispatched to both listeners
ScrollTo(y) ==
    /\ scroll.events < MaxScrolls
    /\ y # scroll.scrollY
    /\ scroll' = [scroll EXCEPT
                     !.scrollY = y,
                     !.events = @ + 1,
                     !.throttles = [name \in DOMAIN @ |->
                                      throttled(@[name], <<scroll.events + 1>>)]]
    /\ UNCHANGED <<i18nVars, applied, typing, menu, theme>>

\* the browser renders a frame
AnimationFrame ==
    /\ \E name \in DOMAIN scroll.throttles : scroll.throttles[name].frames > 0
    /\ scroll' = RunFrames(scroll, 1)
    /\ UNCHANGED <<i18nVars, applied, typing, menu, theme>>

\* the timeout a frame callback of name set runs out
Timeout(name) ==
    /\ scroll.throttles[name].timers > 0
    /\ scroll' = [scroll EXCEPT !.throttles[name] = TimeoutCallback(@)]
    /\ UNCHANGED <<i18nVars, applied, typing, menu, theme>>

-----------------------------------------------------------------------------
(* The mobile menu (src/script.js, initNavigation: nav link click 131-143,  *)
(* openMobileMenu 175-185, closeMobileMenu 187-198, onOutsideClick 200-204, *)
(* onMenuKeydown 206-227, toggle click 229-232).  menu is                   *)
(*   navToggle      the page holds the .nav-toggle button                   *)
(*   navOpen        the header carries the class nav-open                   *)
(*   ariaExpanded   the toggle's aria-expanded (NULL without a toggle)      *)
(*   overflow       document.body.style.overflow                            *)
(*   listeners      the document's listeners set by openMobileMenu          *)
(*   activeElement  document.activeElement                                  *)
(*   redundantAdds  addEventListener calls for a listener already there     *)
(*   closeCalls     calls of closeMobileMenu                                *)
(*   events         clicks and key presses delivered so far                 *)

MenuListeners == {"click", "keydown"}

\* the page's focusable elements in tab order: those of the header, then
\* the content after it
TabOrder(m) ==
    (IF m.navToggle THEN <<"navToggle">> ELSE <<>>)
        \o <<"firstLink", "lastLink", "main">>

\* getFocusableElements(header)
HeaderFocusable(m) == SubSeq(TabOrder(m), 1, Len(TabOrder(m)) - 1)

\* the page as init() leaves it; toggle: it holds the .nav-toggle button
MenuIdle(toggle) ==
    [navToggle |-> toggle, navOpen |-> FALSE,
     ariaExpanded |-> IF toggle THEN "false" ELSE NULL,
     overflow |-> "", listeners |-> {}, activeElement |-> "body",
     redundantAdds |-> 0, closeCalls |-> 0, events |-> 0]

openMobileMenu(m) ==
    [m EXCEPT !.navOpen = TRUE,
              !.ariaExpanded = IF m.navToggle THEN "true" ELSE @,
              !.overflow = "hidden",
              !.activeElement = "firstLink",
              !.redundantAdds = @ + Cardinality(m.listeners \cap MenuListeners),
              !.listeners = @ \cup MenuListeners]

\* A closeMobileMenu without its first line.
closeMobileMenuUnguarded(m) ==
    [m EXCEPT !.navOpen = FALSE,
              !.ariaExpanded = IF m.navToggle THEN "false" ELSE @,
              !.overflow = "",
              !.listeners = @ \ MenuListeners,
              !.activeElement = IF m.navToggle THEN "navToggle" ELSE @]

closeMobileMenu(m) ==
    IF ~m.navOpen
    THEN m
    ELSE [m EXCEPT !.navOpen = FALSE,
                   !.ariaExpanded = IF m.navToggle THEN "false" ELSE @,
                   !.overflow = "",
                   !.listeners = @ \ MenuListeners,
                   !.activeElement = IF m.navToggle THEN "navToggle" ELSE @]

\* a call of closeMobileMenu, counted
CallClose(m) == [closeMobileMenu(m) EXCEPT !.closeCalls = @ + 1]

\* onOutsideClick(e); inHeader: header.contains(e.target)
onOutsideClick(m, inHeader) == IF ~inHeader THEN CallClose(m) ELSE m

\* where the browser moves the focus on Tab / Shift+Tab left to itself
DefaultTab(m, shiftKey) ==
    LET order == TabOrder(m)
        at == IF \E k \in DOMAIN order : order[k] = m.activeElement
              THEN CHOOSE k \in DOMAIN order : order[k] = m.activeElement
              ELSE IF shiftKey THEN Len(order) + 1 ELSE 0
        to == IF shiftKey THEN at - 1 ELSE at + 1
    IN  [m EXCEPT !.activeElement = IF to \in DOMAIN order THEN order[to]
                                    ELSE "body"]

\* onMenuKeydown(e), then the key's default action unless prevented
onMenuKeydown(m, key, shiftKey) ==
    LET focusable == HeaderFocusable(m)
        first == focusable[1]
        last == focusable[Len(focusable)]
    IN  IF key = "Escape"
        THEN CallClose(m)
        ELSE IF key = "Tab"
        THEN IF shiftKey /\ m.activeElement = first
             THEN [m EXCEPT !.activeElement = last]
             ELSE IF ~shiftKey /\ m.activeElement = last
             THEN [m EXCEPT !.activeElement = first]
             ELSE DefaultTab(m, shiftKey)
        ELSE m

\* a step of the menu: one event delivered, the others' state untouched
MenuEvent(after) ==
    /\ menu.events < MaxMenuEvents
    /\ menu' = [after EXCEPT !.events = @ + 1]
    /\ UNCHANGED <<i18nVars, applied, typing, scroll, theme>>

\* click on the toggle: stopPropagation(), so the document's listener is not run
ToggleClick ==
    /\ menu.navToggle
    /\ MenuEvent(IF menu.navOpen THEN CallClose(menu) ELSE openMobileMenu(menu))

\* click on a nav link whose href names an element of the page or not; the
\* click then reaches the document's listener if that is still registered
NavLinkClick(target) ==
    LET handled == IF ~target THEN menu ELSE CallClose(menu)
    IN  MenuEvent(IF "click" \in handled.listeners
                  THEN onOutsideClick(handled, TRUE)
                  ELSE handled)

\* click anywhere else, inside or outside the header
DocumentClick(inHeader) ==
    MenuEvent(IF "click" \in menu.listeners
              THEN onOutsideClick(menu, inHeader)
              ELSE menu)

\* a key press
Keydown(key, shiftKey) ==
    MenuEvent(IF "keydown" \in menu.listeners
              THEN onMenuKeydown(menu, key, shiftKey)
              ELSE IF key = "Tab" THEN DefaultTab(menu, shiftKey) ELSE menu)

-----------------------------------------------------------------------------
(* The theme toggle (src/script.js, initThemeToggle 239-277).  theme is     *)
(*   pc            "load": initThemeToggle has not run; "ready": it has     *)
(*   loaded        localStorage's 'theme' when the page loaded              *)
(*   stored        localStorage.getItem('theme'): a string, or NULL         *)
(*   prefersLight  matchMedia('(prefers-color-scheme: light)').matches      *)
(*   btn           the page holds the .theme-toggle button                  *)
(*   dataset       the button's data-aria-light / data-aria-dark, or NULL   *)
(*   dataTheme     the root's data-theme attribute, or NULL                 *)
(*   ariaLabel     the button's aria-label, or NULL                         *)
(*   themes        the themes applyTheme was called with, in order          *)

THEME_STORAGE_KEY == "theme"

\* the page before initThemeToggle runs
ThemeIdle(stored, prefersLight, btn, dataset) ==
    [pc |-> "load", loaded |-> stored, stored |-> stored,
     prefersLight |-> prefersLight, btn |-> btn, dataset |-> dataset,
     dataTheme |-> NULL, ariaLabel |-> NULL, themes |-> <<>>]

getInitialTheme(th) ==
    IF th.stored = "light" \/ th.stored = "dark"
    THEN th.stored
    ELSE IF th.prefersLight THEN "light" ELSE "dark"

\* An applyTheme that does not write to localStorage.
applyThemeUnsaved(th, t) ==
    LET targetMode == IF t = "dark" THEN "light" ELSE "dark"
        label == IF targetMode = "light"
                 THEN IF TruthyStr(th.dataset.ariaLight)
                      THEN th.dataset.ariaLight ELSE "Switch to light mode"
                 ELSE IF TruthyStr(th.dataset.ariaDark)
                      THEN th.dataset.ariaDark ELSE "Switch to dark mode"
    IN  [th EXCEPT !.dataTheme = t,
                   !.ariaLabel = IF th.btn THEN label ELSE @,
                   !.themes = Append(@, t)]

applyTheme(th, t) ==
    LET targetMode == IF t = "dark" THEN "light" ELSE "dark"
        label == IF targetMode = "light"
                 THEN IF TruthyStr(th.dataset.ariaLight)
                      THEN th.dataset.ariaLight ELSE "Switch to light mode"
                 ELSE IF TruthyStr(th.dataset.ariaDark)
                      THEN th.dataset.ariaDark ELSE "Switch to dark mode"
    IN  [th EXCEPT !.dataTheme = t,
                   !.stored = t,
                   !.ariaLabel = IF th.btn THEN label ELSE @,
                   !.themes = Append(@, t)]

\* initThemeToggle(), called once by init()
InitThemeToggle ==
    /\ theme.pc = "load"
    /\ theme' = [applyTheme(theme, getInitialTheme(theme)) EXCEPT !.pc = "ready"]
    /\ UNCHANGED <<i18nVars, applied, typing, scroll, menu>>

\* the click handler of the button
ThemeClick ==
    /\ theme.pc = "ready"
    /\ theme.btn
    /\ Len(theme.themes) <= MaxThemeClicks
    /\ LET current == IF theme.dataTheme # NULL THEN theme.dataTheme ELSE "dark"
           next == IF current = "dark" THEN "light" ELSE "dark"
       IN  theme' = applyTheme(theme, next)
    /\ UNCHANGED <<i18nVars, applied, typing, scroll, menu>>

-----------------------------------------------------------------------------
(* Initial states and specifications *)

\* values localStorage may hold under 'lang' when the page loads
StoredValues == {NULL, "", "en", "pt-BR", "de", "fr", "pt"}

\* locales a browser may report
Locales == {"en", "pt-BR", "de", "de-AT", "pt", "en-US", "fr-FR", "-de", "EN", ""}

RECURSIVE ListsUpTo(_)
ListsUpTo(n) ==
    IF n = 0 THEN {<<>>}
    ELSE LET shorter == ListsUpTo(n - 1)
         IN  shorter \cup {Append(l, x) : l \in {s \in shorter : Len(s) = n - 1},
                                          x \in Locales}

Navigators ==
    {[hasLanguages |-> TRUE, languages |-> l, language |-> ""] :
        l \in ListsUpTo(MaxLangs)}
    \cup {[hasLanguages |-> FALSE, languages |-> <<>>, language |-> x] :
            x \in Locales}

\* the state of the module and the page before the script's last line runs
PageLoaded ==
    /\ resolved = NONE
    /\ translationCache = [l \in Codes |-> UNDEFINED]
    /\ dom = InitialDom
    /\ langOptions = [p \in {} |-> UNDEFINED]
    /\ htmlLang = "en"
    /\ tasks = <<>>
    /\ fetches = [l \in Codes |-> 0]
    /\ loads = [l \in Codes |-> 0]

\* nothing outside the i18n module has run
ScriptLoaded ==
    /\ applied = <<>>
    /\ typing = TypingIdle(TRUE)
    /\ scroll = ScrollIdle(0)
    /\ menu = MenuIdle(TRUE)
    /\ theme = ThemeIdle(NULL, FALSE, TRUE,
                         [ariaLight |-> NULL, ariaDark |-> NULL])

\* the stored value and the browser's locale list of a few page sessions:
\* nothing stored and no locale, a stored preference that outranks the
\* browser, a stale stored value with a locale matched by prefix
Sessions ==
    {[storage |-> NULL, languages |-> <<>>],
     [storage |-> "pt-BR", languages |-> <<"de-AT", "en">>],
     [storage |-> "fr", languages |-> <<"de-AT", "en">>]}

\* the page layouts: with both picker containers, and without .nav-actions
Layouts ==
    {[navActions |-> TRUE, navMobile |-> TRUE],
     [navActions |-> FALSE, navMobile |-> TRUE]}

Init ==
    /\ \E s \in Sessions :
          /\ storage = s.storage
          /\ navigator = [hasLanguages |-> TRUE, languages |-> s.languages,
                          language |-> ""]
    /\ markup \in Layouts
    /\ PageLoaded
    /\ ScriptLoaded

Next ==
    \/ InitI18n
    \/ \E lang \in Codes : SwitchLanguage(lang)
    \/ \E i \in DOMAIN tasks : FetchOk(i)
    \/ \E i \in DOMAIN tasks : FetchFail(i)

Spec == Init /\ [][Next]_vars

\* the resolver alone, over every stored value and browser locale list
InitResolve ==
    /\ storage \in StoredValues
    /\ navigator \in Navigators
    /\ markup = [navActions |-> TRUE, navMobile |-> TRUE]
    /\ PageLoaded
    /\ ScriptLoaded

NextResolve == ResolveCall

SpecResolve == InitResolve /\ [][NextResolve]_vars

\* the applier alone: bundles applied one after another to a page
\* a bundle none of whose levels has the shape the markup expects
OddBundle ==
    Obj([hero |-> Str("Hero"),
         meta |-> Obj([title |-> Str(""), description |-> EmptyBundle]),
         nav  |-> Obj([toggle |-> Obj([open |-> Str("Open")])])])

Bundles == {Document(l) : l \in Supported} \cup {EmptyBundle, OddBundle}

\* a page whose marked elements, title and description are empty
BlankDom ==
    [text |-> [el \in DOMAIN DataI18n |-> ""],
     aria |-> [el \in DOMAIN DataI18nAriaLabel |-> ""],
     title |-> "",
     description |-> ""]

InitApply ==
    /\ storage = NULL
    /\ navigator = [hasLanguages |-> TRUE, languages |-> <<>>, language |-> ""]
    /\ markup = [navActions |-> TRUE, navMobile |-> TRUE]
    /\ resolved = NONE
    /\ translationCache = [l \in Codes |-> UNDEFINED]
    /\ dom \in {InitialDom, BlankDom}
    /\ langOptions = [p \in {} |-> UNDEFINED]
    /\ htmlLang = "en"
    /\ tasks = <<>>
    /\ fetches = [l \in Codes |-> 0]
    /\ loads = [l \in Codes |-> 0]
    /\ ScriptLoaded

NextApply == \E bundle \in Bundles : Apply(bundle)

SpecApply == InitApply /\ [][NextApply]_vars

\* a page on which initI18n has not run
I18nNotStarted ==
    /\ storage = NULL
    /\ navigator = [hasLanguages |-> TRUE, languages |-> <<>>, language |-> ""]
    /\ markup = [navActions |-> TRUE, navMobile |-> TRUE]
    /\ PageLoaded

\* the subtitle texts typeHeroSubtitle is called with
Subtitles == {"", "Hi", "Ola"}

\* the typing effect alone, on a page with and without the subtitle element
InitTyping ==
    /\ I18nNotStarted
    /\ applied = <<>>
    /\ typing \in {TypingIdle(present) : present \in BOOLEAN}
    /\ scroll = ScrollIdle(0)
    /\ menu = MenuIdle(TRUE)
    /\ theme = ThemeIdle(NULL, FALSE, TRUE,
                         [ariaLight |-> NULL, ariaDark |-> NULL])

NextTyping ==
    \/ \E text \in Subtitles, reduced \in BOOLEAN : TypeHeroSubtitle(text, reduced)
    \/ \E t \in typing.timers : TypeCharTimer(t)
    \/ \E t \in typing.timers : CursorTimer(t)

SpecTyping == InitTyping /\ [][NextTyping]_vars

\* positions the page is scrolled to: the top, short of and past
\* SCROLL_THRESHOLD, the bottom
ScrollPositions == {0, 40, 100, DocHeight}

\* the scroll handlers alone, on a page that loads at any of the positions
InitScroll ==
    /\ I18nNotStarted
    /\ applied = <<>>
    /\ typing = TypingIdle(TRUE)
    /\ scroll \in {ScrollIdle(y) : y \in ScrollPositions}
    /\ menu = MenuIdle(TRUE)
    /\ theme = ThemeIdle(NULL, FALSE, TRUE,
                         [ariaLight |-> NULL, ariaDark |-> NULL])

NextScroll ==
    \/ \E y \in ScrollPositions : ScrollTo(y)
    \/ AnimationFrame
    \/ \E name \in DOMAIN scroll.throttles : Timeout(name)

SpecScroll == InitScroll /\ [][NextScroll]_vars

\* the mobile menu alone, on a page with and without the toggle button
InitMenu ==
    /\ I18nNotStarted
    /\ applied = <<>>
    /\ typing = TypingIdle(TRUE)
    /\ scroll = ScrollIdle(0)
    /\ menu \in {MenuIdle(toggle) : toggle \in BOOLEAN}
    /\ theme = ThemeIdle(NULL, FALSE, TRUE,
                         [ariaLight |-> NULL, ariaDark |-> NULL])

NextMenu ==
    \/ ToggleClick
    \/ \E target \in BOOLEAN : NavLinkClick(target)
    \/ \E inHeader \in BOOLEAN : DocumentClick(inHeader)
    \/ \E key \in {"Escape", "Tab", "a"}, shiftKey \in BOOLEAN : Keydown(key, shiftKey)

SpecMenu == InitMenu /\ [][NextMenu]_vars

\* values localStorage may hold under 'theme' when the page loads
StoredThemes == {NULL, "", "light", "dark", "auto"}

\* the labels the button's markup may carry
ThemeDatasets ==
    {[ariaLight |-> NULL, ariaDark |-> NULL],
     [ariaLight |-> "Modo claro", ariaDark |-> "Modo escuro"],
     [ariaLight |-> "", ariaDark |-> "Modo escuro"]}

\* the theme toggle alone, from the page's load on
InitTheme ==
    /\ I18nNotStarted
    /\ applied = <<>>
    /\ typing = TypingIdle(TRUE)
    /\ scroll = ScrollIdle(0)
    /\ menu = MenuIdle(TRUE)
    /\ \E stored \in StoredThemes, prefersLight \in BOOLEAN, btn \in BOOLEAN,
          dataset \in ThemeDatasets :
          theme = ThemeIdle(stored, prefersLight, btn, dataset)

NextTheme ==
    \/ InitThemeToggle
    \/ ThemeClick

SpecTheme == InitTheme /\ [][NextTheme]_vars

-----------------------------------------------------------------------------
(* Properties of the resolver, under SpecResolve *)

\* the locale list the resolver reads
Langs == BrowserLangs(navigator)

\* the part of a locale before its first "-"
LocalePrefix(l) ==
    IF IndexOf(l, "-") = 0 THEN l ELSE SubSeq(l, 1, IndexOf(l, "-") - 1)

\* supported code s matches locale l by prefix
PrefixMatches(l, s) ==
    s = LocalePrefix(l) \/ StartsWith(s, LocalePrefix(l) \o "-")

\* locale l matches some supported code, exactly or by prefix
LocaleMatches(l) == l \in Supported \/ \E s \in Supported : PrefixMatches(l, s)

\* C1: resolveLanguage() returns a member of the supported set for every
\* stored value (absent, empty, supported, unsupported) and every browser
\* locale list, the empty list included.
C1_ResolveSupported == resolved # NONE => resolved \in Supported

C1_Witness ==
    /\ storage = "fr"
    /\ navigator.hasLanguages /\ navigator.languages = <<>>
    /\ resolved \in Supported

\* C2: a stored preference that is a supported code is returned as it is,
\* whatever the browser reports.
C2_StoredWins ==
    (resolved # NONE /\ storage \in Supported) => resolved = storage

C2_Witness ==
    /\ storage = "de"
    /\ navigator.hasLanguages /\ navigator.languages = <<"pt-BR", "en">>
    /\ resolved = "de"

\* C3 as stated: with no valid stored preference, a locale of the list that
\* is itself a supported code beats every prefix match, so the first such
\* locale is the result whenever there is one.
C3_ExactBeatsPrefix ==
    (resolved # NONE /\ storage \notin Supported) =>
        LET exact == {k \in DOMAIN Langs : Langs[k] \in Supported}
        IN  exact # {} =>
                resolved = Langs[CHOOSE k \in exact : \A j \in exact : k <= j]

\* C3 amended: with no valid stored preference, the first locale of the list
\* that matches any supported code, exactly or by prefix, decides: the result
\* is that locale when it is a supported code, and otherwise the first
\* supported code it matches by prefix; ["fr-FR","de-AT"] yields "de".
C3_FirstMatchWins ==
    (resolved # NONE /\ storage \notin Supported) =>
        /\ \A k \in DOMAIN Langs :
              (LocaleMatches(Langs[k]) /\ \A j \in 1..(k - 1) : ~LocaleMatches(Langs[j]))
              => IF Langs[k] \in Supported
                 THEN resolved = Langs[k]
                 ELSE /\ resolved \in Supported
                      /\ PrefixMatches(Langs[k], resolved)
                      /\ \A i, j \in DOMAIN SUPPORTED_LANGS :
                            (SUPPORTED_LANGS[j] = resolved /\ i < j)
                            => ~PrefixMatches(Langs[k], SUPPORTED_LANGS[i])
        /\ Langs = <<"fr-FR", "de-AT">> => resolved = "de"

C3_Witness ==
    /\ storage = NULL
    /\ navigator.hasLanguages /\ navigator.languages = <<"de-AT", "en">>
    /\ resolved = "de"

\* C4: with no valid stored preference and no locale that matches a
\* supported code exactly or by prefix, the result is the default "en".
C4_DefaultWhenNoMatch ==
    (/\ resolved # NONE
     /\ storage \notin Supported
     /\ \A k \in DOMAIN Langs : ~LocaleMatches(Langs[k]))
    => resolved = DEFAULT_LANG

C4_Witness ==
    /\ storage = NULL
    /\ navigator.hasLanguages /\ navigator.languages = <<"fr-FR", "EN">>
    /\ resolved = "en"

-----------------------------------------------------------------------------
(* Properties of the loader and the switch, under Spec *)

\* task i runs to its end in this step
Completes(i) ==
    /\ i \in DOMAIN tasks'
    /\ tasks'[i].pc = "done"
    /\ i \in DOMAIN tasks => tasks[i].pc = "fetch"

\* this step is a call of switchLanguage
SwitchCalled ==
    /\ tasks # <<>>
    /\ Len(tasks') = Len(tasks) + 1
    /\ Last(tasks').fn = "switchLanguage"

\* every button in the document is marked active exactly for lang
MarkedActive(opts, lang) ==
    \A p \in DOMAIN opts : \A l \in Supported :
        /\ opts[p][l].active <=> l = lang
        /\ opts[p][l].ariaCurrent = "true" <=> l = lang

\* C5 as stated: whatever the schedule, a language's bundle is fetched at
\* most once in a page session.
C5_AtMostOneFetch == \A l \in Codes : fetches[l] <= 1

\* C5 amended: a call of loadTranslation(lang) made when the cache holds
\* lang's bundle issues no fetch and returns the cached bundle, so a code
\* whose fetch has succeeded is never fetched again; a call made while the
\* first fetch is outstanding, or after it failed, issues a fetch of its own.
C5_CachedNeverRefetched ==
    [][\A l \in Codes :
          translationCache[l] # UNDEFINED =>
             /\ fetches'[l] = fetches[l]
             /\ loads'[l] # loads[l] =>
                   \E i \in DOMAIN tasks' :
                       Completes(i) /\ tasks'[i].result = translationCache[l]]_vars

C5_Witness ==
    \E l \in Supported :
        /\ loads[l] >= 2
        /\ fetches[l] = 1
        /\ translationCache[l] = Document(l)

\* the calls, at every moment: at most two fetches each, the second one the
\* fallback to the default after the requested non-default language failed
CallsBounded ==
    \A i \in DOMAIN tasks :
        LET t == tasks[i]
        IN  /\ t.pc \in {"fetch", "done", "ignored"}
            /\ Len(t.fetched) <= 2
            /\ Len(t.fetched) = 2 =>
                  t.fetched = <<t.lang, DEFAULT_LANG>> /\ t.lang # DEFAULT_LANG
            /\ t.pc = "fetch" => t.failures = Len(t.fetched) - 1
            /\ t.pc = "done" =>
                  /\ t.fetched # <<>> => t.fetched[1] = t.lang
                  /\ t.failures <= Len(t.fetched)
                  /\ t.result # UNDEFINED
                  /\ (t.fetched # <<>> /\ t.failures = Len(t.fetched)
                        /\ Last(t.fetched) = DEFAULT_LANG)
                     => t.result = EmptyBundle

\* the fetch of suspended call i settles in this step
Settles(i) ==
    /\ tasks[i].pc = "fetch"
    /\ \/ tasks'[i].pc # "fetch"
       \/ tasks'[i].fetched # tasks[i].fetched
       \/ tasks'[i].failures # tasks[i].failures

\* C6: a call fetches at most twice and never rejects: each settled fetch
\* either ends the call or, when the requested non-default language failed,
\* starts the one fetch of the default; a call whose fetch of the default
\* failed ends with the empty bundle.
C6_OneFallbackHop ==
    /\ []CallsBounded
    /\ [][\A i \in DOMAIN tasks :
             Settles(i) =>
                \/ tasks'[i].pc = "done"
                \/ /\ tasks'[i].pc = "fetch"
                   /\ tasks[i].fetched = <<tasks[i].lang>>
                   /\ tasks[i].lang # DEFAULT_LANG
                   /\ tasks'[i].fetched = <<tasks[i].lang, DEFAULT_LANG>>
                   /\ tasks'[i].failures = 1]_vars

C6_Witness ==
    \E i \in DOMAIN tasks :
        /\ tasks[i].pc = "done"
        /\ tasks[i].fetched = <<"de", "en">>
        /\ tasks[i].failures = 2
        /\ tasks[i].result = EmptyBundle

\* C7: switchLanguage with a code outside the supported set changes nothing:
\* not the stored preference, the cache, the text and attributes of the
\* page, the picker marks or the lang attribute, and it issues no fetch.
C7_UnsupportedSwitchNoOp ==
    [][(SwitchCalled /\ Last(tasks').lang \notin Supported) =>
          /\ UNCHANGED <<storage, translationCache, dom, langOptions, htmlLang,
                         fetches, loads>>
          /\ SubSeq(tasks', 1, Len(tasks)) = tasks
          /\ Last(tasks').pc = "ignored"]_vars

C7_Witness ==
    \E i, j \in DOMAIN tasks :
        /\ j < i
        /\ tasks[j].pc = "fetch"
        /\ tasks[i].pc = "ignored" /\ tasks[i].lang = "xx"

\* C8: when switchLanguage(lang), lang supported, runs to its end and no
\* other switch or initial load ran while it was suspended, the stored
\* preference and the lang attribute are lang and the buttons in the
\* document are marked active exactly for lang, fetch failed or not.
C8_SwitchCompletes ==
    [][\A i \in DOMAIN tasks' :
          (/\ Completes(i)
           /\ tasks'[i].fn = "switchLanguage"
           /\ ~tasks'[i].overlapped)
          => /\ storage' = tasks'[i].lang
             /\ htmlLang' = tasks'[i].lang
             /\ MarkedActive(langOptions', tasks'[i].lang)]_vars

C8_Witness ==
    /\ tasks # <<>>
    /\ LET t == Last(tasks)
       IN  /\ t.fn = "switchLanguage" /\ t.pc = "done" /\ ~t.overlapped
           /\ t.lang = "pt-BR" /\ t.failures = 1
           /\ storage = "pt-BR" /\ htmlLang = "pt-BR"
    /\ DOMAIN langOptions = Pickers
    /\ MarkedActive(langOptions, "pt-BR")

\* C9: switches are not serialized: the call that runs to its end stamps the
\* page with its own bundle, marks and lang attribute whatever was requested
\* after it, so the response resolved last wins.
C9_LastResponseWins ==
    [][\A i \in DOMAIN tasks' :
          Completes(i) =>
             /\ dom' = applyTranslations(tasks'[i].result, dom)
             /\ htmlLang' = tasks'[i].lang
             /\ MarkedActive(langOptions', tasks'[i].lang)]_vars

\* no load in flight, the stored preference is the language requested last,
\* and the lang attribute and the text are another language's
C9_Witness ==
    /\ tasks # <<>>
    /\ \A i \in DOMAIN tasks : tasks[i].pc # "fetch"
    /\ Last(tasks).fn = "switchLanguage" /\ Last(tasks).lang = storage
    /\ storage \in Supported /\ htmlLang \in Supported
    /\ storage # htmlLang
    /\ dom.text.heroSubtitle =
          JsString(getNestedValue(Document(htmlLang), "hero.subtitle"))
    /\ dom.text.heroSubtitle #
          JsString(getNestedValue(Document(storage), "hero.subtitle"))

\* C10: the stored preference changes only in a call of switchLanguage, and
\* only to the supported code that call was given.
C10_OnlySwitchPersists ==
    [][storage' # storage =>
          /\ SwitchCalled
          /\ Last(tasks').lang \in Supported
          /\ storage' = Last(tasks').lang]_vars

C10_Witness ==
    /\ tasks # <<>>
    /\ tasks[1].pc = "done"
    /\ storage \in Supported
    /\ storage # tasks[1].lang

-----------------------------------------------------------------------------
(* Properties of the applier, under SpecApply *)

\* this step is a direct call of applyTranslations
ApplyCalled == Len(applied') = Len(applied) + 1

\* the bundle itself holds a value under every segment of the dotted path
RECURSIVE HoldsPath(_, _, _)
HoldsPath(v, keys, k) ==
    \/ k > Len(keys)
    \/ /\ v.t = "object"
       /\ keys[k] \in DOMAIN v.f
       /\ HoldsPath(v.f[keys[k]], keys, k + 1)

PathAbsent(bundle, keyPath) == ~HoldsPath(bundle, Split(keyPath, "."), 1)

\* C11: applying the bundle that was applied last once more changes nothing:
\* not the text of a key-marked element, the aria-label of an
\* attribute-marked one, the title or the description.
C11_ApplyIdempotent ==
    [][(ApplyCalled /\ applied # <<>> /\ Last(applied') = Last(applied))
          => dom' = dom]_vars

C11_Witness ==
    /\ applied = <<Document("en"), Document("pt-BR"), Document("pt-BR")>>
    /\ dom.text.heroSubtitle = "Ola"
    /\ dom.text.heroCta = "Contact"
    /\ dom.title = "Inicio"

-----------------------------------------------------------------------------
(* Properties of start-up and of the cache, under Spec *)

\* the value the bundle holds under a path it holds
RECURSIVE ValueAt(_, _, _)
ValueAt(v, keys, k) ==
    IF k > Len(keys) THEN v ELSE ValueAt(v.f[keys[k]], keys, k + 1)

\* el's key leads to a string of the bundle
HoldsString(bundle, keyPath) ==
    /\ HoldsPath(bundle, Split(keyPath, "."), 1)
    /\ ValueAt(bundle, Split(keyPath, "."), 1).t = "string"

\* initI18n ran to its end on its first fetch and no supported switch was made
StartedUp ==
    /\ tasks # <<>>
    /\ tasks[1].pc = "done"
    /\ tasks[1].failures = 0
    /\ \A i \in 2..Len(tasks) : tasks[i].pc = "ignored"

\* C13: when initI18n runs with a supported stored preference L, its fetch
\* succeeds and no switch intervenes, every key-marked element whose key is
\* in L's bundle shows that bundle's string, the lang attribute is L and
\* exactly L's buttons are marked active; stored "pt-BR" gives the subtitle
\* "Ola" and the lang attribute "pt-BR".
C13_StartUp ==
    (StartedUp /\ storage \in Supported) =>
        /\ tasks[1].lang = storage
        /\ htmlLang = storage
        /\ MarkedActive(langOptions, storage)
        /\ \A el \in DOMAIN DataI18n :
              HoldsString(Document(storage), DataI18n[el])
              => dom.text[el] =
                    ValueAt(Document(storage), Split(DataI18n[el], "."), 1).s
        /\ storage = "pt-BR" =>
              dom.text.heroSubtitle = "Ola" /\ htmlLang = "pt-BR"

C13_Witness ==
    /\ StartedUp
    /\ Len(tasks) = 1
    /\ storage = "pt-BR"
    /\ dom.text.heroSubtitle = "Ola"
    /\ htmlLang = "pt-BR"
    /\ DOMAIN langOptions = Pickers
    /\ MarkedActive(langOptions, "pt-BR")

\* call i fetched lang and that fetch succeeded
FetchedOk(i, lang) ==
    /\ tasks[i].pc = "done"
    /\ tasks[i].fetched # <<>>
    /\ Last(tasks[i].fetched) = lang
    /\ tasks[i].failures < Len(tasks[i].fetched)

\* an entry of the cache is the document of its own language, fetched
\* successfully by some call
CacheFromOwnFetch ==
    \A l \in Codes :
        translationCache[l] # UNDEFINED =>
            /\ translationCache[l] = Document(l)
            /\ \E i \in DOMAIN tasks : FetchedOk(i, l)

\* C14: the cache holds under a code only the bundle of a successful fetch
\* of that code's document; it is written only in the step that such a fetch
\* settles, never with the default's or the empty bundle under the code a
\* failed load asked for; an entry once present stays as it is.
C14_CacheOwnBundleOnly ==
    /\ []CacheFromOwnFetch
    /\ [][\A l \in Codes :
             /\ translationCache[l] # UNDEFINED
                => translationCache'[l] = translationCache[l]
             /\ translationCache'[l] # translationCache[l]
                => \E i \in DOMAIN tasks :
                      /\ tasks[i].pc = "fetch"
                      /\ Last(tasks[i].fetched) = l
                      /\ tasks'[i].pc = "done"
                      /\ tasks'[i].failures = tasks[i].failures
                      /\ translationCache'[l] = Document(l)]_vars

C14_Witness ==
    /\ \E i \in DOMAIN tasks :
          /\ tasks[i].lang = "de"
          /\ tasks[i].pc = "done"
          /\ tasks[i].fetched = <<"de", "en">>
          /\ tasks[i].failures = 1
          /\ tasks[i].result = Document("en")
    /\ translationCache["de"] = UNDEFINED
    /\ translationCache["en"] = Document("en")

-----------------------------------------------------------------------------
(* Properties of the typing effect, under SpecTyping *)

\* the calls of typeHeroSubtitle that got past its first line
TypedCalls == {k \in DOMAIN typing.typed : typing.el /\ typing.typed[k].text # ""}

LastTyped == CHOOSE k \in TypedCalls : \A j \in TypedCalls : j <= k

\* C15: at most one typing timer is pending; once typeHeroSubtitle was
\* called with a non-empty text t2 on a page that has the element, every
\* pending timer belongs to that call, so no character of an earlier text is
\* appended: the element's text is a prefix of t2 and its aria-label is t2,
\* and when no timer is left the text is t2 and the typing-cursor class is
\* off.
C15_TypingCancels ==
    /\ Cardinality(typing.timers) <= 1
    /\ TypedCalls # {} =>
          LET t2 == typing.typed[LastTyped].text
          IN  /\ \A t \in typing.timers : t.call = LastTyped /\ t.text = t2
              /\ typing.ariaLabel = t2
              /\ StartsWith(t2, typing.textContent)
              /\ typing.timers = {} =>
                    typing.textContent = t2 /\ ~typing.typingCursor

\* "Hi" was asked for when "Ola" had two characters typed and its second
\* timer pending (ids 1 and 2 are the first call's), and was typed to its end
C15_Witness ==
    /\ typing.typed = <<[text |-> "Ola", reduced |-> FALSE],
                        [text |-> "Hi", reduced |-> FALSE]>>
    /\ typing.timers = {}
    /\ typing.nextId = 6
    /\ typing.textContent = "Hi"
    /\ typing.ariaLabel = "Hi"
    /\ ~typing.typingCursor

-----------------------------------------------------------------------------
(* Properties of the scroll handlers, under SpecScroll *)

\* no frame callback and no timeout of any throttled function is pending
ScrollQuiet ==
    \A name \in DOMAIN scroll.throttles :
        scroll.throttles[name].frames = 0 /\ scroll.throttles[name].timers = 0

\* C16: throttle is a trailing-edge throttle: a throttled function has at
\* most one frame callback pending, and no frame callback while the timeout
\* of its last run is pending; once every frame and timeout has fired, fn
\* has been applied to the arguments of the last call, so the header's
\* scrolled class and the progress bar show the final scroll position.
C16_TrailingEdge ==
    /\ \A name \in DOMAIN scroll.throttles :
          LET th == scroll.throttles[name]
          IN  /\ th.frames + th.timers <= 1
              /\ ScrollQuiet =>
                    th.invoked # <<>> /\ Last(th.invoked) = th.lastArgs
    /\ ScrollQuiet =>
          /\ scroll.scrolled = (scroll.scrollY > SCROLL_THRESHOLD)
          /\ scroll.ariaValueNow = Progress(scroll.scrollY)

-----------------------------------------------------------------------------
(* Properties of the mobile menu, under SpecMenu *)

\* the four marks of an open menu agree, and no listener was added twice
MenuConsistent ==
    /\ menu.navOpen <=> menu.ariaExpanded = "true"
    /\ menu.navOpen <=> menu.overflow = "hidden"
    /\ menu.navOpen <=> menu.listeners = MenuListeners
    /\ menu.listeners \in {{}, MenuListeners}
    /\ menu.redundantAdds = 0

\* C17: under toggle clicks, outside clicks, key presses and nav-link
\* clicks the header has nav-open exactly when aria-expanded is "true",
\* body overflow is hidden and both document listeners are registered; no
\* listener is registered twice; and a call of closeMobileMenu on a closed
\* menu changes no attribute and does not move the focus.
C17_MenuConsistent ==
    /\ []MenuConsistent
    /\ [][(menu'.closeCalls > menu.closeCalls /\ ~menu.navOpen) =>
             menu' = [menu EXCEPT !.events = menu'.events,
                                  !.closeCalls = menu'.closeCalls]]_vars

\* the menu was opened and closed by Escape, then a nav link was clicked on
\* the closed menu after the focus had moved on
C17_Witness ==
    /\ menu.navToggle
    /\ menu.events = 4
    /\ menu.closeCalls = 2
    /\ ~menu.navOpen
    /\ menu.ariaExpanded = "false"
    /\ menu.overflow = ""
    /\ menu.listeners = {}
    /\ menu.activeElement = "firstLink"

-----------------------------------------------------------------------------
(* Properties of the theme toggle, under SpecTheme *)

Opposite(t) == IF t = "dark" THEN "light" ELSE "dark"

\* the label the page gives for switching to mode
SwitchLabel(mode) ==
    LET own == IF mode = "light" THEN theme.dataset.ariaLight
               ELSE theme.dataset.ariaDark
    IN  IF own \in {NULL, ""} THEN "Switch to " \o mode \o " mode" ELSE own

\* C18: once initThemeToggle has run, data-theme is "light" or "dark" and
\* is the stored theme; the first theme is the stored one if that was
\* "light" or "dark" and the system's preference otherwise; every click
\* applies the opposite of the theme before it, so two clicks restore it;
\* and the button's aria-label is the label for the opposite mode.
C18_ThemeConsistent ==
    theme.pc = "ready" =>
        /\ theme.dataTheme \in {"light", "dark"}
        /\ theme.stored = theme.dataTheme
        /\ theme.themes # <<>>
        /\ theme.dataTheme = Last(theme.themes)
        /\ theme.themes[1] =
              IF theme.loaded \in {"light", "dark"} THEN theme.loaded
              ELSE IF theme.prefersLight THEN "light" ELSE "dark"
        /\ \A k \in DOMAIN theme.themes :
              /\ k > 1 => theme.themes[k] = Opposite(theme.themes[k - 1])
              /\ k > 2 => theme.themes[k] = theme.themes[k - 2]
        /\ theme.btn => theme.ariaLabel = SwitchLabel(Opposite(theme.dataTheme))

\* nothing usable was stored, the system prefers light, and two clicks
\* brought the page back to light
C18_Witness ==
    /\ theme.pc = "ready"
    /\ theme.loaded = "auto"
    /\ theme.prefersLight
    /\ theme.btn
    /\ theme.dataset = [ariaLight |-> "", ariaDark |-> "Modo escuro"]
    /\ theme.themes = <<"light", "dark", "light">>
    /\ theme.stored = "light"
    /\ theme.ariaLabel = "Modo escuro"

====
